---- MODULE Spec2Model ----
(***************************************************************************)
(* Model of data-scripts/build_keyboard_adjacency_graphs.py: build_graph,  *)
(* which turns an ASCII-art keyboard diagram into an adjacency graph, the  *)
(* bundled layouts, and the command-line driver that builds the requested  *)
(* layouts and dumps them to a file.                                       *)
(*                                                                         *)
(* A character is a one-character string, a Python str is a sequence of    *)
(* characters, None (in an adjacency list) is the empty sequence: no token *)
(* is empty.  A dict is kept in insertion order, as Python 3.7+ iterates   *)
(* it: position_table is a sequence of (coord, token) items, and the       *)
(* adjacency graph, whose order no statement reads, is a function.         *)
(***************************************************************************)
EXTENDS Integers, Sequences, FiniteSets, TLC

VARIABLES
    layout_str,       \* build_graph's first argument
    slanted_arg,      \* build_graph's second argument, `slanted`
    pc,               \* where build_graph is: idle, start, parse, adjacency, returned, failed
    error,            \* the exception that ended build_graph ("" when none)
    tokens,           \* line 97
    token_size,       \* line 98
    y,                \* line 102: index of the current line
    t,                \* line 105: 1-based index of the current token of the line
    position_table,   \* line 96
    overwrites,       \* history: assignments of line 108 whose key was already in position_table
    pi,               \* line 111: 1-based index of the current position_table item
    ci,               \* line 112: 1-based index of the current character of its token
    adjacency_graph,  \* line 110
    result,           \* the value build_graph returned (<<>> while there is none)
    layout,           \* line 131: the layout name being built ("" outside the driver's layouts)
    args_given,       \* whether -l was on the command line (args.layouts is None otherwise)
    args_layouts,     \* args.layouts
    li,               \* line 131: 1-based index into args.layouts
    data,             \* line 131: the dict under construction
    file,             \* the output file: "previous", "empty" (truncated) or "dumped"
    dumped,           \* what line 132 wrote
    dpc,              \* where the driver is: none, args, comprehension, dump, exit, exited, crashed
    derror            \* the exception that ended the driver ("" when none)

vars == <<layout_str, slanted_arg, pc, error, tokens, token_size, y, t, position_table,
          overwrites, pi, ci, adjacency_graph, result, layout, args_given, args_layouts,
          li, data, file, dumped, dpc, derror>>

build_vars == <<layout_str, slanted_arg, pc, error, tokens, token_size, y, t, position_table,
                overwrites, pi, ci, adjacency_graph, result>>

driver_vars == <<layout, args_given, args_layouts, li, data, file, dumped, dpc, derror>>

\* Length bound of the diagrams the generic specification enumerates.
MaxLen == 5

\* Bound on the number of layout names on the driver's command line.
MaxLayouts == 2

\* Python's None, as a slot of an adjacency list.
None == <<>>

\* layouts["qwerty_en"], lines 18-23: the raw string literal, one character per element
\* (a code point outside printable ASCII, and the backquote, is written U+XXXX).
qwerty_en ==
    <<"\n">> \o
    <<"U+0060", "~", " ", "1", "!", " ", "2", "@", " ", "3", "#", " ", "4", "$", " ", "5", "%", " ", "6", "^", " ", "7", "&", " ", "8", "*", " ", "9", "(", " ", "0", ")", " ", "-", "_", " ", "=", "+", "\n">> \o
    <<" ", " ", " ", " ", "q", "Q", " ", "w", "W", " ", "e", "E", " ", "r", "R", " ", "t", "T", " ", "y", "Y", " ", "u", "U", " ", "i", "I", " ", "o", "O", " ", "p", "P", " ", "[", "{", " ", "]", "}", " ", "\\", "|", "\n">> \o
    <<" ", " ", " ", " ", " ", "a", "A", " ", "s", "S", " ", "d", "D", " ", "f", "F", " ", "g", "G", " ", "h", "H", " ", "j", "J", " ", "k", "K", " ", "l", "L", " ", ";", ":", " ", "'", "\"", "\n">> \o
    <<" ", " ", " ", " ", " ", " ", "z", "Z", " ", "x", "X", " ", "c", "C", " ", "v", "V", " ", "b", "B", " ", "n", "N", " ", "m", "M", " ", ",", "<", " ", ".", ">", " ", "/", "?", "\n">>

\* layouts["qwerty_es"], lines 26-31: the raw string literal, one character per element
\* (a code point outside printable ASCII, and the backquote, is written U+XXXX).
qwerty_es ==
    <<"\n">> \o
    <<" ", " ", "1", "!", " ", "2", "\"", " ", "3", " ", " ", "4", "$", " ", "5", "%", " ", "6", "&", " ", "7", "/", " ", "8", "(", " ", "9", ")", " ", "0", "=", " ", "'", "?", " ", "U+00A1", "U+00BF", "\n">> \o
    <<" ", " ", " ", " ", "q", "Q", " ", "w", "W", " ", "e", "E", " ", "r", "R", " ", "t", "T", " ", "y", "Y", " ", "u", "U", " ", "i", "I", " ", "o", "O", " ", "p", "P", " ", " ", " ", " ", "+", "*", "\n">> \o
    <<" ", " ", " ", " ", " ", "a", "A", " ", "s", "S", " ", "d", "D", " ", "f", "F", " ", "g", "G", " ", "h", "H", " ", "j", "J", " ", "k", "K", " ", "l", "L", " ", "U+00F1", "U+00D1", " ", " ", " ", " ", "U+00E7", "U+00C7", "\n">> \o
    <<" ", " ", " ", "<", ">", " ", "z", "Z", " ", "x", "X", " ", "c", "C", " ", "v", "V", " ", "b", "B", " ", "n", "N", " ", "m", "M", " ", ",", "<", " ", ".", ">", " ", "/", "?", "\n">>

\* layouts["qwertz_de"], lines 34-39: the raw string literal, one character per element
\* (a code point outside printable ASCII, and the backquote, is written U+XXXX).
qwertz_de ==
    <<"\n">> \o
    <<"^", "U+00B0", " ", "1", "!", " ", "2", "\"", " ", "3", "U+00A7", " ", "4", "$", " ", "5", "%", " ", "6", "&", " ", "7", "/", " ", "8", "(", " ", "9", ")", " ", "0", "=", " ", "U+00DF", "?", " ", "U+00B4", "U+0060", "\n">> \o
    <<" ", " ", " ", " ", "q", "Q", " ", "w", "W", " ", "e", "E", " ", "r", "R", " ", "t", "T", " ", "z", "Z", " ", "u", "U", " ", "i", "I", " ", "o", "O", " ", "p", "P", " ", "U+00FC", "U+00DC", " ", "+", "*", "\n">> \o
    <<" ", " ", " ", " ", " ", "a", "A", " ", "s", "S", " ", "d", "D", " ", "f", "F", " ", "g", "G", " ", "h", "H", " ", "j", "J", " ", "k", "K", " ", "l", "L", " ", "U+00F6", "U+00D6", " ", "U+00E4", "U+00C4", " ", "#", "'", "\n">> \o
    <<" ", " ", " ", "<", ">", " ", "z", "Z", " ", "x", "X", " ", "c", "C", " ", "v", "V", " ", "b", "B", " ", "n", "N", " ", "m", "M", " ", ",", ";", " ", ".", ":", " ", "-", "_", "\n">>

\* layouts["azerty"], lines 42-47: the raw string literal, one character per element
\* (a code point outside printable ASCII, and the backquote, is written U+XXXX).
azerty ==
    <<"\n">> \o
    <<" ", " ", " ", "&", "1", " ", "U+00E9", "2", " ", "\"", "3", " ", "'", "4", " ", "(", "5", " ", "-", "6", " ", "U+00E8", "7", " ", "_", "8", " ", "U+00E7", "9", " ", "U+00E0", "0", " ", ")", "U+00B0", " ", "=", "+", "\n">> \o
    <<" ", " ", " ", " ", "a", "A", " ", "z", "Z", " ", "e", "E", " ", "r", "R", " ", "t", "T", " ", "y", "Y", " ", "u", "U", " ", "i", "I", " ", "o", "O", " ", "p", "P", " ", " ", " ", " ", "$", "U+00A3", "\n">> \o
    <<" ", " ", " ", " ", " ", "q", "Q", " ", "s", "S", " ", "d", "D", " ", "f", "F", " ", "g", "G", " ", "h", "H", " ", "j", "J", " ", "k", "K", " ", "l", "L", " ", "m", "M", " ", "U+00F9", "%", " ", "*", "U+00B5", "\n">> \o
    <<" ", " ", " ", "<", ">", " ", "w", "W", " ", "x", "X", " ", "c", "C", " ", "v", "V", " ", "b", "B", " ", "n", "N", " ", ",", "?", " ", ";", ".", " ", ":", "/", " ", "!", "U+00A7", "\n">>

\* layouts["dvorak"], lines 50-55: the raw string literal, one character per element
\* (a code point outside printable ASCII, and the backquote, is written U+XXXX).
dvorak ==
    <<"\n">> \o
    <<"U+0060", "~", " ", "1", "!", " ", "2", "@", " ", "3", "#", " ", "4", "$", " ", "5", "%", " ", "6", "^", " ", "7", "&", " ", "8", "*", " ", "9", "(", " ", "0", ")", " ", "[", "{", " ", "]", "}", "\n">> \o
    <<" ", " ", " ", " ", "'", "\"", " ", ",", "<", " ", ".", ">", " ", "p", "P", " ", "y", "Y", " ", "f", "F", " ", "g", "G", " ", "c", "C", " ", "r", "R", " ", "l", "L", " ", "/", "?", " ", "=", "+", " ", "\\", "|", "\n">> \o
    <<" ", " ", " ", " ", " ", "a", "A", " ", "o", "O", " ", "e", "E", " ", "u", "U", " ", "i", "I", " ", "d", "D", " ", "h", "H", " ", "t", "T", " ", "n", "N", " ", "s", "S", " ", "-", "_", "\n">> \o
    <<" ", " ", " ", " ", " ", " ", ";", ":", " ", "q", "Q", " ", "j", "J", " ", "k", "K", " ", "x", "X", " ", "b", "B", " ", "m", "M", " ", "w", "W", " ", "v", "V", " ", "z", "Z", "\n">>

\* layouts["keypad"], lines 57-63: the raw string literal, one character per element
\* (a code point outside printable ASCII, and the backquote, is written U+XXXX).
keypad ==
    <<"\n">> \o
    <<" ", " ", "/", " ", "*", " ", "-", "\n">> \o
    <<"7", " ", "8", " ", "9", " ", "+", "\n">> \o
    <<"4", " ", "5", " ", "6", "\n">> \o
    <<"1", " ", "2", " ", "3", "\n">> \o
    <<" ", " ", "0", " ", ".", "\n">>

\* layouts["mac_keypad"], lines 65-71: the raw string literal, one character per element
\* (a code point outside printable ASCII, and the backquote, is written U+XXXX).
mac_keypad ==
    <<"\n">> \o
    <<" ", " ", "=", " ", "/", " ", "*", "\n">> \o
    <<"7", " ", "8", " ", "9", " ", "-", "\n">> \o
    <<"4", " ", "5", " ", "6", " ", "+", "\n">> \o
    <<"1", " ", "2", " ", "3", "\n">> \o
    <<" ", " ", "0", " ", ".", "\n">>
\* The layouts dict (lines 14-71).
LayoutNames ==
    {"qwerty_en", "qwerty_es", "qwertz_de", "azerty", "dvorak", "keypad", "mac_keypad"}

layouts ==
    [name \in LayoutNames |->
        CASE name = "qwerty_en" -> qwerty_en
          [] name = "qwerty_es" -> qwerty_es
          [] name = "qwertz_de" -> qwertz_de
          [] name = "azerty" -> azerty
          [] name = "dvorak" -> dvorak
          [] name = "keypad" -> keypad
          [] name = "mac_keypad" -> mac_keypad]

\* The slanted set (lines 15, 17, 25, 33, 41, 49).
slanted == {"qwerty_en", "qwerty_es", "qwertz_de", "azerty", "dvorak"}

\* The characters str.split() treats as separators (of those a diagram can hold).
Whitespace == {" ", "\n", "\t", "\r", "\f"}

\* The elements of a finite set of integers, in increasing order.
Sorted(S) ==
    [k \in 1..Cardinality(S) |-> CHOOSE e \in S : Cardinality({d \in S : d < e}) = k - 1]

\* str.split(): the maximal runs of non-whitespace characters, in order.
Split(s) ==
    LET starts == Sorted({i \in 1..Len(s) :
                            /\ s[i] \notin Whitespace
                            /\ (i = 1 \/ s[i - 1] \in Whitespace)})
        end(i) == CHOOSE j \in i..Len(s) :
                      /\ \A k \in i..j : s[k] \notin Whitespace
                      /\ (j = Len(s) \/ s[j + 1] \in Whitespace)
    IN [k \in 1..Len(starts) |-> SubSeq(s, starts[k], end(starts[k]))]

\* str.split('\n'): the pieces between newlines, empty ones kept; never an empty list.
SplitLines(s) ==
    LET breaks == Sorted({i \in 1..Len(s) : s[i] = "\n"})
        from(k) == IF k = 1 THEN 1 ELSE breaks[k - 1] + 1
        to(k) == IF k = Len(breaks) + 1 THEN Len(s) ELSE breaks[k] - 1
    IN [k \in 1..(Len(breaks) + 1) |-> SubSeq(s, from(k), to(k))]

\* str.index(sub): the 0-based offset of the first occurrence of sub in s.  It is
\* only applied to a token of s.split(), which does occur in s.
Index(s, sub) ==
    CHOOSE i \in 0..(Len(s) - Len(sub)) :
        /\ SubSeq(s, i + 1, i + Len(sub)) = sub
        /\ \A j \in 0..(i - 1) : SubSeq(s, j + 1, j + Len(sub)) # sub

\* A faulty get_slanted_adjacent_coords: the two keys above taken as on an aligned
\* grid, up-left and up, the slant of the rows forgotten.
get_slanted_adjacent_coords_unslanted(x, yy) ==
    << <<x - 1, yy>>, <<x - 1, yy - 1>>, <<x, yy - 1>>,
       <<x + 1, yy>>, <<x, yy + 1>>, <<x - 1, yy + 1>> >>

\* get_slanted_adjacent_coords (line 80).
get_slanted_adjacent_coords(x, yy) ==
    << <<x - 1, yy>>, <<x, yy - 1>>, <<x + 1, yy - 1>>,
       <<x + 1, yy>>, <<x, yy + 1>>, <<x - 1, yy + 1>> >>

\* get_aligned_adjacent_coords (line 86).
get_aligned_adjacent_coords(x, yy) ==
    << <<x - 1, yy>>, <<x - 1, yy - 1>>, <<x, yy - 1>>, <<x + 1, yy - 1>>,
       <<x + 1, yy>>, <<x + 1, yy + 1>>, <<x, yy + 1>>, <<x - 1, yy + 1>> >>

\* Line 100: adjacency_func.
adjacency_func(x, yy) ==
    IF slanted_arg THEN get_slanted_adjacent_coords(x, yy)
    ELSE get_aligned_adjacent_coords(x, yy)

\* Line 99: the x position unit is the token length plus one for the following space.
x_unit == token_size + 1

\* A faulty line 101: any() for all().
TokenLenOk_any(toks, size) == \E k \in 1..Len(toks) : Len(toks[k]) = size

\* Line 101: all(len(token) == token_size for token in tokens).
TokenLenOk(toks, size) == \A k \in 1..Len(toks) : Len(toks[k]) = size

\* Line 104: slant = y - 1 if slanted else 0.
Slant(yy) == IF slanted_arg THEN yy - 1 ELSE 0

\* Whether the dict holds the key.
HasKey(table, coord) == \E k \in 1..Len(table) : table[k].coord = coord

\* dict.get(coord, None) (line 119).
Get(table, coord) ==
    IF HasKey(table, coord)
    THEN table[CHOOSE k \in 1..Len(table) : table[k].coord = coord].token
    ELSE None

\* position_table[(x,y)] = token (line 108): a new key goes last, a key the dict holds
\* keeps its place and takes the new value.
Put(table, coord, token) ==
    IF HasKey(table, coord)
    THEN [k \in 1..Len(table) |->
            IF table[k].coord = coord THEN [coord |-> coord, token |-> token] ELSE table[k]]
    ELSE Append(table, [coord |-> coord, token |-> token])

\* A faulty line 113: adjacency_graph.setdefault(char, []), which keeps the list of
\* a character an earlier key already entered.
NewSlots_setdefault(graph, char) == IF char \in DOMAIN graph THEN graph[char] ELSE <<>>

\* Line 113: adjacency_graph[char] = [], the list the slots are appended to.
NewSlots(graph, char) == <<>>

\* Lines 113-119 for one character: its list, then one slot per adjacent coordinate.
Slots(graph, table, char, x, yy) ==
    LET coords == adjacency_func(x, yy)
    IN NewSlots(graph, char) \o [k \in 1..Len(coords) |-> Get(table, coords[k])]

\* dict[key] = value on a dict held as a function.
DictSet(d, key, value) ==
    [k \in (DOMAIN d) \cup {key} |-> IF k = key THEN value ELSE d[k]]

\* The lines of the diagram (line 102) and the tokens of the current one (line 105).
Lines == SplitLines(layout_str)

LineTokens == Split(Lines[y + 1])

\* build_graph raises: no graph is returned.
Raise(msg) ==
    /\ pc' = "failed"
    /\ error' = msg
    /\ result' = <<>>

\* Lines 96-101: tokenize, take the first token's length, assert the token lengths.
Start ==
    /\ pc = "start"
    /\ tokens' = Split(layout_str)
    /\ IF tokens' = <<>>
       THEN /\ Raise("IndexError")
            /\ UNCHANGED <<token_size, y, t>>
       ELSE /\ token_size' = Len(tokens'[1])
            /\ IF TokenLenOk(tokens', token_size')
               THEN /\ pc' = "parse"
                    /\ y' = 0
                    /\ t' = 1
                    /\ UNCHANGED <<error, result>>
               ELSE /\ Raise("token len mismatch")
                    /\ UNCHANGED <<y, t>>
    /\ UNCHANGED <<layout_str, slanted_arg, position_table, overwrites, pi, ci,
                   adjacency_graph>>
    /\ UNCHANGED driver_vars

\* Lines 105-108: one token of the current line.
ParseToken ==
    /\ pc = "parse"
    /\ t <= Len(LineTokens)
    /\ LET line == Lines[y + 1]
           token == LineTokens[t]
           offset == Index(line, token) - Slant(y)
           x == offset \div x_unit
           remainder == offset % x_unit
       IN IF remainder = 0
          THEN /\ position_table' = Put(position_table, <<x, y>>, token)
               /\ overwrites' = overwrites + (IF HasKey(position_table, <<x, y>>) THEN 1 ELSE 0)
               /\ t' = t + 1
               /\ UNCHANGED <<pc, error, result>>
          ELSE /\ Raise("unexpected x offset")
               /\ UNCHANGED <<position_table, overwrites, t>>
    /\ UNCHANGED <<layout_str, slanted_arg, tokens, token_size, y, pi, ci, adjacency_graph>>
    /\ UNCHANGED driver_vars

\* Line 102: the line's tokens are done; on to the next line, or to line 110.
NextLine ==
    /\ pc = "parse"
    /\ t > Len(LineTokens)
    /\ IF y + 1 < Len(Lines)
       THEN /\ y' = y + 1
            /\ t' = 1
            /\ UNCHANGED <<pc, pi, ci>>
       ELSE /\ pc' = "adjacency"
            /\ pi' = 1
            /\ ci' = 1
            /\ UNCHANGED <<y, t>>
    /\ UNCHANGED <<layout_str, slanted_arg, error, tokens, token_size, position_table,
                   overwrites, adjacency_graph, result>>
    /\ UNCHANGED driver_vars

\* Lines 111-119: one character of one position_table item.
AddChar ==
    /\ pc = "adjacency"
    /\ pi <= Len(position_table)
    /\ LET item == position_table[pi]
           char == item.token[ci]
       IN /\ adjacency_graph' =
                DictSet(adjacency_graph, char,
                        Slots(adjacency_graph, position_table, char,
                              item.coord[1], item.coord[2]))
          /\ IF ci < Len(item.token)
             THEN /\ ci' = ci + 1
                  /\ pi' = pi
             ELSE /\ ci' = 1
                  /\ pi' = pi + 1
    /\ UNCHANGED <<layout_str, slanted_arg, pc, error, tokens, token_size, y, t,
                   position_table, overwrites, result>>
    /\ UNCHANGED driver_vars

\* Line 120: return adjacency_graph.
Return ==
    /\ pc = "adjacency"
    /\ pi > Len(position_table)
    /\ pc' = "returned"
    /\ result' = adjacency_graph
    /\ UNCHANGED <<layout_str, slanted_arg, error, tokens, token_size, y, t,
                   position_table, overwrites, pi, ci, adjacency_graph>>
    /\ UNCHANGED driver_vars

\* build_graph, one step.
NextBuild == Start \/ ParseToken \/ NextLine \/ AddChar \/ Return

\* The locals of a call of build_graph as the call begins.
Entered(str, flag) ==
    /\ layout_str = str
    /\ slanted_arg = flag
    /\ pc = "start"
    /\ error = ""
    /\ tokens = <<>>
    /\ token_size = 0
    /\ y = 0
    /\ t = 1
    /\ position_table = <<>>
    /\ overwrites = 0
    /\ pi = 1
    /\ ci = 1
    /\ adjacency_graph = <<>>
    /\ result = <<>>

\* No driver: build_graph is called directly.
NoDriver ==
    /\ args_given = FALSE
    /\ args_layouts = <<>>
    /\ li = 1
    /\ data = <<>>
    /\ file = "previous"
    /\ dumped = <<>>
    /\ dpc = "none"
    /\ derror = ""

\* The characters of the enumerated diagrams: two key characters, the space, the newline.
Alphabet == {"a", "b", " ", "\n"}

Diagrams == UNION {[1..n -> Alphabet] : n \in 0..MaxLen}

\* build_graph on every diagram of at most MaxLen characters, with either geometry.
Init ==
    /\ \E str \in Diagrams, flag \in BOOLEAN : Entered(str, flag)
    /\ layout = ""
    /\ NoDriver

Next == NextBuild

Spec == Init /\ [][Next]_vars

\* build_graph on each bundled layout with its geometry (line 131's call).
InitBundled ==
    /\ \E name \in LayoutNames :
          /\ layout = name
          /\ Entered(layouts[name], name \in slanted)
    /\ NoDriver

SpecBundled == InitBundled /\ [][Next]_vars

\* The names a command line can ask for: the bundled layouts and one that is not bundled.
RequestNames == LayoutNames \cup {"colemak"}

LayoutArgs == UNION {[1..n -> RequestNames] : n \in 0..MaxLayouts}

\* The driver after parser.parse_args() (line 128): the file still holds what it held.
InitDriver ==
    /\ \E given \in BOOLEAN :
          /\ args_given = given
          /\ \E ls \in LayoutArgs :
                /\ args_layouts = ls
                /\ (~given => ls = <<>>)
    /\ li = 1
    /\ data = <<>>
    /\ file = "previous"
    /\ dumped = <<>>
    /\ dpc = "args"
    /\ derror = ""
    /\ layout = ""
    /\ layout_str = <<>>
    /\ slanted_arg = FALSE
    /\ pc = "idle"
    /\ error = ""
    /\ tokens = <<>>
    /\ token_size = 0
    /\ y = 0
    /\ t = 1
    /\ position_table = <<>>
    /\ overwrites = 0
    /\ pi = 1
    /\ ci = 1
    /\ adjacency_graph = <<>>
    /\ result = <<>>

\* Line 130: open(args.filename, 'w') creates the file or truncates it.
Open ==
    /\ dpc = "args"
    /\ file' = "empty"
    /\ dpc' = "comprehension"
    /\ li' = 1
    /\ data' = <<>>
    /\ UNCHANGED <<layout, args_given, args_layouts, dumped, derror>>
    /\ UNCHANGED build_vars

\* An exception leaves the with block (which closes the file) and ends the script.
Crash(msg) ==
    /\ dpc' = "crashed"
    /\ derror' = msg

\* Line 131: the comprehension takes the next name of args.layouts and calls
\* build_graph(layouts[layout], layout in slanted); after the last name it is done.
CallBuild ==
    /\ dpc = "comprehension"
    /\ pc = "idle"
    /\ IF ~args_given
       THEN /\ Crash("TypeError")
            /\ UNCHANGED <<layout, build_vars>>
       ELSE IF li > Len(args_layouts)
       THEN /\ dpc' = "dump"
            /\ UNCHANGED <<derror, layout, build_vars>>
       ELSE IF args_layouts[li] \notin DOMAIN layouts
       THEN /\ Crash("KeyError")
            /\ UNCHANGED <<layout, build_vars>>
       ELSE /\ layout' = args_layouts[li]
            /\ layout_str' = layouts[layout']
            /\ slanted_arg' = (layout' \in slanted)
            /\ pc' = "start"
            /\ error' = ""
            /\ tokens' = <<>>
            /\ token_size' = 0
            /\ y' = 0
            /\ t' = 1
            /\ position_table' = <<>>
            /\ overwrites' = 0
            /\ pi' = 1
            /\ ci' = 1
            /\ adjacency_graph' = <<>>
            /\ result' = <<>>
            /\ UNCHANGED <<dpc, derror>>
    /\ UNCHANGED <<args_given, args_layouts, li, data, file, dumped>>

\* Line 131: the value build_graph returned is stored under the layout's name.
Collect ==
    /\ dpc = "comprehension"
    /\ pc = "returned"
    /\ data' = DictSet(data, layout, result)
    /\ li' = li + 1
    /\ pc' = "idle"
    /\ UNCHANGED <<layout_str, slanted_arg, error, tokens, token_size, y, t, position_table,
                   overwrites, pi, ci, adjacency_graph, result>>
    /\ UNCHANGED <<layout, args_given, args_layouts, file, dumped, dpc, derror>>

\* Line 131: an exception of build_graph is not caught.
Propagate ==
    /\ dpc = "comprehension"
    /\ pc = "failed"
    /\ Crash(error)
    /\ UNCHANGED <<layout, args_given, args_layouts, li, data, file, dumped>>
    /\ UNCHANGED build_vars

\* Line 132: simplejson.dump(data, f).
Dump ==
    /\ dpc = "dump"
    /\ file' = "dumped"
    /\ dumped' = data
    /\ dpc' = "exit"
    /\ UNCHANGED <<layout, args_given, args_layouts, li, data, derror>>
    /\ UNCHANGED build_vars

\* Line 133: sys.exit(0).
Exit ==
    /\ dpc = "exit"
    /\ dpc' = "exited"
    /\ UNCHANGED <<layout, args_given, args_layouts, li, data, file, dumped, derror>>
    /\ UNCHANGED build_vars

NextDriver == Open \/ CallBuild \/ NextBuild \/ Collect \/ Propagate \/ Dump \/ Exit

\* A run of the script on every command line of at most MaxLayouts layout names.
SpecDriver == InitDriver /\ [][NextDriver]_vars

(***************************************************************************)
(* The claims.                                                             *)
(***************************************************************************)

\* The characters of a token.
Chars(token) == {token[k] : k \in 1..Len(token)}

\* The direction offsets as the specification lists them, in slot order.
SpecOffsets(flag, x, yy) ==
    IF flag
    THEN << <<x - 1, yy>>, <<x, yy - 1>>, <<x + 1, yy - 1>>,
            <<x + 1, yy>>, <<x, yy + 1>>, <<x - 1, yy + 1>> >>
    ELSE << <<x - 1, yy>>, <<x - 1, yy - 1>>, <<x, yy - 1>>, <<x + 1, yy - 1>>,
            <<x + 1, yy>>, <<x + 1, yy + 1>>, <<x, yy + 1>>, <<x - 1, yy + 1>> >>

\* C1: in the graph build_graph returns, every character of every key's legend has
\* an entry, and slot i of that entry holds the legend at the i-th direction offset
\* of that key's coordinate, or None when no key is there.
C1_EveryKeyListsItsNeighbours ==
    pc = "returned" =>
        \A k \in 1..Len(position_table) :
            LET item == position_table[k]
                coords == SpecOffsets(slanted_arg, item.coord[1], item.coord[2])
            IN \A c \in Chars(item.token) :
                  /\ c \in DOMAIN result
                  /\ result[c] = [i \in 1..Len(coords) |-> Get(position_table, coords[i])]

C3_Expected ==
    << <<"f", "F">>, <<"t", "T">>, <<"y", "Y">>, <<"h", "H">>, <<"b", "B">>, <<"v", "V">> >>

\* C3: the slanted graph of qwerty_en maps 'g' and 'G' to
\* ["fF", "tT", "yY", "hH", "bB", "vV"].
C3_QwertyG ==
    (layout = "qwerty_en" /\ pc = "returned") =>
        /\ "g" \in DOMAIN result
        /\ "G" \in DOMAIN result
        /\ result["g"] = C3_Expected
        /\ result["G"] = C3_Expected

\* C3's case: build_graph returned the graph of qwerty_en, built as slanted.
C3_Witness ==
    /\ layout = "qwerty_en"
    /\ slanted_arg
    /\ pc = "returned"
    /\ "g" \in DOMAIN result

\* C4: the aligned graph of the layout named keypad maps '7' to
\* [None, None, None, "=", "8", "5", "4", None].
C4_Keypad7 ==
    (layout = "keypad" /\ pc = "returned") =>
        /\ "7" \in DOMAIN result
        /\ result["7"] = <<None, None, None, <<"=">>, <<"8">>, <<"5">>, <<"4">>, None>>

\* A diagram with a token whose length differs from the first token's.
C5_MixedWidths ==
    LET toks == Split(layout_str)
    IN /\ toks # <<>>
       /\ \E k \in 1..Len(toks) : Len(toks[k]) # Len(toks[1])

\* C5: on a diagram with a token of another length than the first, build_graph
\* fails with the token length mismatch, before any position or graph entry is
\* made, and returns nothing.
C5_MismatchIsFatal ==
    (C5_MixedWidths /\ pc # "start") =>
        /\ pc = "failed"
        /\ error = "token len mismatch"
        /\ position_table = <<>>
        /\ adjacency_graph = <<>>
        /\ result = <<>>

\* C5's case: build_graph has failed on a diagram with tokens of two lengths.
C5_Witness ==
    /\ C5_MixedWidths
    /\ pc = "failed"

\* C6: a token assigned a coordinate the position table already holds ends
\* build_graph in a failure: no graph is returned after such an assignment.
C6_CollisionIsFatal ==
    pc = "returned" => overwrites = 0

\* The slot opposite slot i (1-based) among n slots.
C7_Opposite(i, n) == ((i - 1 + (n \div 2)) % n) + 1

\* C7: if slot i of a's entry holds a legend containing b, then b's entry holds
\* the legend of a's key in the opposite slot.
C7_Reciprocal ==
    pc = "returned" =>
        \A a \in DOMAIN result :
            \A i \in 1..Len(result[a]) :
                \A b \in Chars(result[a][i]) :
                    /\ b \in DOMAIN result
                    /\ \E k \in 1..Len(position_table) :
                          /\ a \in Chars(position_table[k].token)
                          /\ result[b][C7_Opposite(i, Len(result[a]))] = position_table[k].token

\* C8: no bundled layout fails build_graph's validation.
C8_BundledLayoutsBuild ==
    pc # "failed"

\* The 0-based offsets at which the tokens of a line begin.
C9_TokenStarts(line) ==
    {o \in 0..(Len(line) - 1) :
        /\ line[o + 1] \notin Whitespace
        /\ (o = 0 \/ line[o] \in Whitespace)}

\* C9: every token occurrence is in the position table at its line's index and at
\* column (its offset in the line - slant) / (token width + 1), so the table has
\* one entry per token occurrence.
C9_EveryOccurrenceRecorded ==
    pc = "returned" =>
        /\ \A r \in 0..(Len(Lines) - 1) :
              \A o \in C9_TokenStarts(Lines[r + 1]) :
                  LET slant == IF slanted_arg THEN r - 1 ELSE 0
                      coord == <<(o - slant) \div (token_size + 1), r>>
                  IN /\ HasKey(position_table, coord)
                     /\ Get(position_table, coord)
                            = SubSeq(Lines[r + 1], o + 1, o + token_size)
        /\ Len(position_table) = Len(tokens)

\* C10: the output file is untouched until every requested layout is built, and a
\* run that fails to build a layout leaves the file as it was.
C10_FileWrittenAfterBuilds ==
    /\ (file # "previous" => dpc \in {"exit", "exited"})
    /\ (dpc = "crashed" => file = "previous")

====
